---- MODULE Spec2Model ----
(***************************************************************************)
(* git-stash-inbox: an interactive walk over the stash stack               *)
(* (src/src/main.rs).  The repository is modelled as a record (branches,   *)
(* checked-out branch, previous branch, index, working tree, stash stack); *)
(* every git invocation of the program is an operator on that record, and  *)
(* every handler of the session loop is one action composed of the         *)
(* invocations it makes, in the order the code makes them.                 *)
(***************************************************************************)
EXTENDS Integers, Sequences, FiniteSets

\* ------------------------------------------------------------------ bounds
MaxStashes == 2     \* stashes present when the session starts
MaxFaults == 1      \* git invocations per session that misbehave (SpecF)

\* ------------------------------------------------------- program constants
\* longest chain of git invocations between two operator reads: the nine of
\* commit_to_branch's rollback path plus the loop's git_stash_show.
NSteps == 10
BROKEN_PIPE == 141

\* ------------------------------------------------------------- characters
\* Strings of the program are sequences of one-character strings.
Whitespace == {" "}
Alphanumeric ==
    {"F", "G", "f", "g", "i", "x", "t", "o", "c", "1", "l", "n", "b", "u"}

to_lowercase(c) ==
    IF c = "F" THEN "f" ELSE IF c = "G" THEN "g" ELSE c

MAIN == <<"m", "a", "i", "n">>
NAMESPACE == <<"s", "t", "a", "s", "h", "/">>
TEMP_STASH ==
    NAMESPACE \o <<"_", "_", "T", "E", "M", "P", "_", "S", "T", "A", "S", "H", "_", "_">>
NoBranch == << >>

\* --------------------------------------------------- commit-message files
\* A file is a sequence of lines, a line a sequence of characters.
MsgFixIt ==
    << <<"#", " ", "c">>, << >>, <<"F", "i", "x", " ", " ", "i", "t", "!", " ">> >>
MsgGo == << <<"G", "o">> >>
MsgHashOnly == << <<"#", "1", " ", "G", "o">> >>
MsgBlankFirst == << <<" ">>, <<"G", "o">> >>
MsgEmpty == << >>
Messages == {MsgFixIt, MsgGo, MsgHashOnly, MsgBlankFirst, MsgEmpty}

\* core.commentChar values a repository may be configured with
CommentChars == {"#", ";"}

\* ------------------------------------------------------ name sanitisation
RECURSIVE SkipWs(_)
SkipWs(s) ==
    IF s = << >> THEN s
    ELSE IF Head(s) \in Whitespace THEN SkipWs(Tail(s)) ELSE s

RECURSIVE TakeTerm(_)
TakeTerm(s) ==
    IF s = << >> \/ Head(s) \in Whitespace THEN << >>
    ELSE <<Head(s)>> \o TakeTerm(Tail(s))

\* str::split_whitespace: the maximal runs of non-whitespace characters
RECURSIVE split_whitespace(_)
split_whitespace(s) ==
    LET r == SkipWs(s) IN
    IF r = << >> THEN << >>
    ELSE LET t == TakeTerm(r) IN
         <<t>> \o split_whitespace(SubSeq(r, Len(t) + 1, Len(r)))

RECURSIVE join(_, _)
join(terms, sep) ==
    IF terms = << >> THEN << >>
    ELSE IF Len(terms) = 1 THEN terms[1]
    ELSE terms[1] \o sep \o join(Tail(terms), sep)

\* faulty variant: nothing is removed from the joined terms
retain_everything(s) == s

retain(s) == SelectSeq(s, LAMBDA c : c = "_" \/ c \in Alphanumeric)

lowercase(s) == [i \in 1..Len(s) |-> to_lowercase(s[i])]

Eligible(line) == line # << >> /\ Head(line) # "#"

\* the first line of the file that is non-empty and does not start with '#';
\* None (the empty tuple wrapped) when there is no such line
RECURSIVE find_subject(_)
find_subject(file) ==
    IF file = << >> THEN [found |-> FALSE, line |-> << >>]
    ELSE IF Eligible(Head(file)) THEN [found |-> TRUE, line |-> Head(file)]
    ELSE find_subject(Tail(file))

Slug(subject) == lowercase(retain(join(split_whitespace(subject), <<"_">>)))

new_branch_name(subject) == NAMESPACE \o Slug(subject)

\* git's own test for an empty commit message (default cleanup mode): some
\* line has a non-blank character and is not a comment line.
GitMessageOk(file, commentChar) ==
    \E i \in 1..Len(file) :
        /\ SkipWs(file[i]) # << >>
        /\ Head(file[i]) # commentChar

\* ------------------------------------------------------------- repository
\* A change is <<stash id, kind>>: "mod" edits a tracked file, "new" adds an
\* untracked one.  A tree (of a commit, of the index, of the working tree) is
\* the set of changes it contains; a commit is identified by its tree.
StashChanges(s) == {<<s, "mod">>, <<s, "new">>}
Dirt == {<<0, "mod">>}

NoCode == -1        \* ExitStatus::code() = None: terminated by a signal
Faults == {"nonzero", "signal", "nolaunch"}

SymDiff(a, b) == (a \ b) \cup (b \ a)

RemoveAt(seq, i) == SubSeq(seq, 1, i - 1) \o SubSeq(seq, i + 1, Len(seq))

\* The state a handler threads through its git invocations: the repository
\* plus the invocations issued so far (log) with their exit codes (codes),
\* what was printed (out), the exit code of the last invocation, the log's
\* length when the handler was entered (start), the io::Error being
\* propagated by `?` (err) and the fate of `git commit`.
World(r) ==
    [branches |-> r.branches, head |-> r.head, prev |-> r.prev,
     idx |-> r.idx, wt |-> r.wt, stashes |-> r.stashes,
     commentChar |-> r.commentChar,
     log |-> << >>, codes |-> << >>, out |-> << >>, code |-> 0,
     err |-> "none", commit |-> "none", start |-> 0]

Repo(w) ==
    [branches |-> w.branches, head |-> w.head, prev |-> w.prev,
     idx |-> w.idx, wt |-> w.wt, stashes |-> w.stashes,
     commentChar |-> w.commentChar]

HeadTree(w) == w.branches[w.head]

Outcome(w, plan) ==
    LET k == Len(w.log) + 1 IN IF k \in DOMAIN plan THEN plan[k] ELSE "run"

\* Command::status() of one git invocation: it cannot be launched (Err), it
\* exits non-zero or is killed by a signal without having done anything, or
\* it runs and has the effect `natural`.  Nothing is issued once an error
\* is being propagated.
Issue(w, name, plan, natural) ==
    IF w.err # "none" THEN w
    ELSE LET o == Outcome(w, plan)
             r == IF o = "nolaunch" THEN [w EXCEPT !.err = "io", !.code = NoCode]
                  ELSE IF o = "signal" THEN [w EXCEPT !.code = NoCode]
                  ELSE IF o = "nonzero" THEN [w EXCEPT !.code = 1]
                  ELSE natural
         IN  [r EXCEPT !.log = Append(w.log, name),
                       !.codes = Append(w.codes, r.code)]

success(w) == w.code = 0

\* git checkout -b <name>
CheckoutB(w, name) ==
    IF name \in DOMAIN w.branches THEN [w EXCEPT !.code = 128]
    ELSE [w EXCEPT !.branches = [n \in DOMAIN w.branches \cup {name} |->
                                    IF n = name THEN HeadTree(w) ELSE w.branches[n]],
                   !.prev = w.head, !.head = name, !.code = 0]

\* git stash apply stash@{n}
StashApply(w, n) ==
    IF n + 1 > Len(w.stashes) THEN [w EXCEPT !.code = 1]
    ELSE LET c == StashChanges(w.stashes[n + 1]) IN
         IF c \cap SymDiff(w.wt, HeadTree(w)) # {} THEN [w EXCEPT !.code = 1]
         ELSE [w EXCEPT !.wt = @ \cup c, !.code = 0]

\* git add .
AddAll(w) == [w EXCEPT !.idx = w.wt, !.code = 0]

\* git commit -n, the operator leaving `msg` in the editor
Commit(w, msg) ==
    IF w.idx = HeadTree(w) \/ ~GitMessageOk(msg, w.commentChar)
    THEN [w EXCEPT !.code = 1]
    ELSE [w EXCEPT !.branches[w.head] = w.idx, !.code = 0]

\* git reset HEAD
ResetHead(w) == [w EXCEPT !.idx = HeadTree(w), !.code = 0]

\* git checkout . : tracked files are restored from the index
CheckoutDot(w) ==
    [w EXCEPT !.wt = {c \in @ : c \in w.idx \/ c[2] # "mod"} \cup w.idx,
              !.code = 0]

\* git clean -f : untracked files are removed
CleanF(w) ==
    [w EXCEPT !.wt = {c \in @ : c \in w.idx \/ c[2] # "new"}, !.code = 0]

\* git checkout - : switch to the branch checked out before (@{-1})
CheckoutPrev(w) ==
    IF w.prev \notin DOMAIN w.branches THEN [w EXCEPT !.code = 1]
    ELSE LET from == HeadTree(w)
             to == w.branches[w.prev]
             local == SymDiff(w.wt, from) \cup SymDiff(w.idx, from)
         IN  IF local \cap SymDiff(from, to) # {} THEN [w EXCEPT !.code = 1]
             ELSE [w EXCEPT !.head = w.prev, !.prev = w.head,
                            !.wt = (@ \ (from \ to)) \cup (to \ from),
                            !.idx = (@ \ (from \ to)) \cup (to \ from),
                            !.code = 0]

\* git branch -d <name>
BranchD(w, name) ==
    IF \/ name \notin DOMAIN w.branches
       \/ name = w.head
       \/ ~(w.branches[name] \subseteq HeadTree(w))
    THEN [w EXCEPT !.code = 1]
    ELSE [w EXCEPT !.branches = [n \in DOMAIN w.branches \ {name} |-> w.branches[n]],
                   !.code = 0]

\* git branch -m <name> : rename the checked-out branch
BranchM(w, name) ==
    IF name = NAMESPACE \/ (name \in DOMAIN w.branches /\ name # w.head)
    THEN [w EXCEPT !.code = 128]
    ELSE [w EXCEPT !.branches = [n \in (DOMAIN w.branches \ {w.head}) \cup {name} |->
                                    IF n = name THEN HeadTree(w) ELSE w.branches[n]],
                   !.head = name, !.code = 0]

\* git stash drop stash@{n}
StashDrop(w, n) ==
    IF n + 1 > Len(w.stashes) THEN [w EXCEPT !.code = 1]
    ELSE [w EXCEPT !.stashes = RemoveAt(@, n + 1), !.code = 0]

\* ------------------------------------------------------------- functions
Emit(w, text) == IF w.err # "none" THEN w ELSE [w EXCEPT !.out = Append(@, text)]

Dirty(w) == w.wt # HeadTree(w) \/ w.idx # HeadTree(w)

\* has_local_changes: `git status --porcelain` wrote something to stdout.
\* Only a launch failure is an error; the exit status is not looked at.
has_local_changes(w, plan) ==
    [world |-> Issue(w, "status", plan, [w EXCEPT !.code = 0]),
     has |-> Outcome(w, plan) = "run" /\ Dirty(w)]

\* git_stashes_is_empty: `git rev-parse -q --verify refs/stash` did not succeed
\* faulty variant: the negation of main.rs:52 is left out
git_stashes_is_empty_inverted(w, plan) ==
    LET w1 == Issue(w, "rev-parse", plan,
                    [w EXCEPT !.code = IF w.stashes = << >> THEN 1 ELSE 0])
    IN  [world |-> w1, empty |-> success(w1)]

git_stashes_is_empty(w, plan) ==
    LET w1 == Issue(w, "rev-parse", plan,
                    [w EXCEPT !.code = IF w.stashes = << >> THEN 1 ELSE 0])
    IN  [world |-> w1, empty |-> ~success(w1)]

\* exit code of `git stash show -p stash@{n}`; `pager` is the operator
\* closing the pager before the diff was written out
StashShow(w, n, pager) ==
    [w EXCEPT !.code = IF n + 1 > Len(w.stashes) THEN 1
                       ELSE IF pager THEN BROKEN_PIPE ELSE 0]

\* faulty variant: only a zero exit counts as "the stash exists"
exists_code_zero_only(code) == code = 0

exists_code(code) == code = 0 \/ code = BROKEN_PIPE

\* what git_stash_show makes of the finished inspection (main.rs:44-46)
stash_show_result(w1) ==
    LET w2 == IF w1.err = "none" /\ w1.code = NoCode
              THEN [w1 EXCEPT !.err = "signal"] ELSE w1
    IN  [world |-> w2, exists |-> exists_code(w2.code)]

git_stash_show(w, n, plan, pager) ==
    stash_show_result(Issue(w, "stash show", plan, StashShow(w, n, pager)))

\* `git stash-applied stash@{n}`, an external git subcommand.  The operator's
\* repository answers "applied", "not_applied", or has no such subcommand
\* ("unsupported": git exits 1 for an unknown subcommand).  The program reads
\* a successful exit as "not applied".
Queries == {"applied", "not_applied", "unsupported"}

StashApplied(w, query) ==
    [w EXCEPT !.code = IF query = "not_applied" THEN 0 ELSE 1]

\* drop_stash up to its prompt: the looks-applied query
drop_stash_query(w, n, plan, query) ==
    LET w1 == Issue(w, "stash-applied", plan, StashApplied(w, query))
    IN  [world |-> w1, applied |-> ~success(w1)]

\* faulty variant: the drop names the stash after the one under review
drop_stash_drop_next(w, n, plan) ==
    Issue(w, "stash drop", plan, StashDrop(w, n + 1))

\* drop_stash from `git stash drop` on
drop_stash_drop(w, n, plan) ==
    Issue(w, "stash drop", plan, StashDrop(w, n))

\* faulty variant: only the answer `n` declines, empty input drops
drop_stash_answer_unless_n(w, n, plan, answer) ==
    IF answer = "n" THEN w ELSE drop_stash_drop(w, n, plan)

\* drop_stash after its prompt was answered
drop_stash_answer(w, n, plan, answer) ==
    IF answer # "y" THEN w ELSE drop_stash_drop(w, n, plan)

\* the rollback of commit_to_branch
rollback(w, plan) ==
    LET w1 == Issue(w, "reset", plan, ResetHead(w))
        w2 == Issue(w1, "checkout .", plan, CheckoutDot(w1))
        w3 == Issue(w2, "clean", plan, CleanF(w2))
        w4 == Issue(w3, "checkout -", plan, CheckoutPrev(w3))
    IN  Issue(w4, "branch -d", plan, BranchD(w4, TEMP_STASH))

\* commit_to_branch after a successful commit
rename_and_drop(w, n, plan, msg) ==
    LET subject == find_subject(msg) IN
    IF ~subject.found THEN [w EXCEPT !.err = "no lines found"]
    ELSE LET name == new_branch_name(subject.line)
             w1 == Issue(w, "branch -m", plan, BranchM(w, name))
             w2 == Issue(w1, "checkout -", plan, CheckoutPrev(w1))
         IN  Issue(w2, "stash drop", plan, StashDrop(w2, n))

\* commit_to_branch past its guard
promote(w, n, plan, msg) ==
    LET w1 == Issue(w, "checkout -b", plan, CheckoutB(w, TEMP_STASH))
        w2 == Issue(w1, "stash apply", plan, StashApply(w1, n))
        w3 == Issue(w2, "add", plan, AddAll(w2))
        w4 == Issue(w3, "commit", plan, Commit(w3, msg))
    IN  IF w4.err # "none" THEN w4
        ELSE IF ~success(w4)
             THEN rollback([w4 EXCEPT !.commit = "failed"], plan)
             ELSE rename_and_drop([w4 EXCEPT !.commit = "ok"], n, plan, msg)

\* faulty variant: the error is printed but the promotion goes ahead
commit_to_branch_unguarded(w, n, can, plan, msg) ==
    promote(IF ~can THEN Emit(w, "ERROR") ELSE w, n, plan, msg)

commit_to_branch(w, n, can, plan, msg) ==
    IF ~can THEN Emit(w, "ERROR") ELSE promote(w, n, plan, msg)

\* `git(["stash", "apply", ..])` of the "a" arm: the Command is built and
\* dropped; no status(), output() or spawn() runs it.
apply_stash(w, n) == w

\* ---------------------------------------------------------------- session
VARIABLES
    repo,             \* the repository the session works on
    stash_num,        \* the cursor of main
    can_save_branch,  \* the flag main computes first
    pc,               \* "start", "prompt", "confirm", "done", "failed"
    err,              \* the io::Error main returned, "none" otherwise
    log,              \* git invocations issued since the last action prompt
    codes,            \* their exit codes
    out,              \* what was printed since the last action prompt
    faults,           \* invocations that misbehaved so far
    last              \* the last operator input and the state it was given in

vars == <<repo, stash_num, can_save_branch, pc, err, log, codes, out, faults, last>>

\* A plan names the invocations of one handler that misbehave, by their
\* place in the handler's log, and how; Plans(b, steps) are those for a
\* handler of at most `steps` invocations that the budget b of the session
\* still allows.
Plans(b, steps) ==
    UNION {[S -> Faults] :
             S \in {T \in SUBSET steps : Cardinality(T) <= b - faults}}

Consumed(plan, w) ==
    Cardinality({k \in DOMAIN plan : w.start < k /\ k <= Len(w.log)})

Answers == {"y", "n", "", "Y"}

InitRepo(n, dirty, cc) ==
    [branches |-> [b \in {MAIN} |-> {}], head |-> MAIN, prev |-> NoBranch,
     idx |-> {}, wt |-> IF dirty THEN Dirt ELSE {},
     stashes |-> [i \in 1..n |-> i], commentChar |-> cc]

Init ==
    /\ \E n \in 0..MaxStashes, dirty \in BOOLEAN, cc \in CommentChars :
          repo = InitRepo(n, dirty, cc)
    /\ stash_num = 0
    /\ can_save_branch = FALSE
    /\ pc = "start"
    /\ err = "none"
    /\ log = << >>
    /\ codes = << >>
    /\ out = << >>
    /\ faults = 0
    /\ last = [input |-> "none", query |-> "none", answer |-> "none",
               msg |-> << >>, commit |-> "none", pre |-> repo, num |-> 0,
               faults |-> 0]

Input(name) ==
    [input |-> name, query |-> "none", answer |-> "none", msg |-> << >>,
     commit |-> "none", pre |-> repo, num |-> stash_num, faults |-> faults]

\* the handler is over: main is at its next read, or has returned
Settle(w, num, where, plan, inp) ==
    /\ repo' = Repo(w)
    /\ stash_num' = num
    /\ pc' = IF w.err # "none" THEN "failed" ELSE where
    /\ err' = w.err
    /\ log' = w.log
    /\ codes' = w.codes
    /\ out' = w.out
    /\ faults' = faults + Consumed(plan, w)
    /\ last' = [inp EXCEPT !.commit = w.commit]

\* back to the head of the loop: `while git_stash_show(stash_num)?`
Loop(w, num, plan, inp) ==
    \E pager \in IF w.err = "none" /\ Outcome(w, plan) = "run"
                     /\ num + 1 <= Len(w.stashes)
                  THEN BOOLEAN ELSE {FALSE} :
       LET r == git_stash_show(w, num, plan, pager) IN
       Settle(r.world, num, IF r.exists THEN "prompt" ELSE "done", plan, inp)

\* main up to the first prompt
Start(b) ==
    /\ pc = "start"
    /\ \E plan \in Plans(b, 1..3) :
          LET h == has_local_changes(World(repo), plan)
              w1 == IF h.has THEN Emit(h.world, "WARNING") ELSE h.world
              e == git_stashes_is_empty(w1, plan)
          IN  /\ can_save_branch' = (h.world.err = "none" /\ ~h.has)
              /\ IF e.world.err = "none" /\ e.empty
                 THEN Settle(Emit(e.world, "No stashes found."), 0, "done", plan,
                             Input("none"))
                 ELSE Loop(e.world, 0, plan, Input("none"))

InputD(b) ==
    /\ pc = "prompt"
    /\ \E plan \in Plans(b, 1..3), query \in Queries :
          LET q == drop_stash_query(World(repo), stash_num, plan, query)
              inp == [Input("d") EXCEPT !.query = query]
          IN  IF q.world.err = "none" /\ ~q.applied
              THEN Settle(Emit(q.world, "Drop anyway?"), stash_num, "confirm", plan, inp)
              ELSE Loop(drop_stash_drop(q.world, stash_num, plan),
                        stash_num, plan, inp)
    /\ UNCHANGED can_save_branch

NoPlan == << >>

Resume ==
    [World(repo) EXCEPT !.log = log, !.codes = codes, !.out = out,
                        !.start = Len(log)]

Confirm(b) ==
    /\ pc = "confirm"
    /\ \E plan \in Plans(b, (Len(log) + 1)..(Len(log) + 2)), answer \in Answers :
          Loop(drop_stash_answer(Resume, stash_num, plan, answer),
               stash_num, plan, [last EXCEPT !.answer = answer])
    /\ UNCHANGED can_save_branch

\* faulty variant: the end of input at the confirmation is not caught by
\* main and leaves it as an error
ConfirmEof_fatal ==
    /\ pc = "confirm"
    /\ Settle([Resume EXCEPT !.err = "eof"], stash_num, "done", NoPlan,
              [last EXCEPT !.answer = "EOF"])
    /\ UNCHANGED can_save_branch

ConfirmEof ==
    /\ pc = "confirm"
    /\ Settle(Emit(Resume, "newline"), stash_num, "done", NoPlan,
              [last EXCEPT !.answer = "EOF"])
    /\ UNCHANGED can_save_branch

\* faulty variant: a promotion whose commit failed moves the cursor on
InputB_advances(b) ==
    /\ pc = "prompt"
    /\ \E plan \in Plans(b, IF can_save_branch THEN 1..NSteps ELSE 1..1),
          msg \in IF can_save_branch THEN Messages ELSE {MsgEmpty} :
          LET w == commit_to_branch(World(repo), stash_num, can_save_branch, plan, msg)
          IN  Loop(w, IF w.commit = "failed" THEN stash_num + 1 ELSE stash_num,
                   plan, [Input("b") EXCEPT !.msg = msg])
    /\ UNCHANGED can_save_branch

InputB(b) ==
    /\ pc = "prompt"
    /\ \E plan \in Plans(b, IF can_save_branch THEN 1..NSteps ELSE 1..1),
          msg \in IF can_save_branch THEN Messages ELSE {MsgEmpty} :
          Loop(commit_to_branch(World(repo), stash_num, can_save_branch, plan, msg),
               stash_num, plan, [Input("b") EXCEPT !.msg = msg])
    /\ UNCHANGED can_save_branch

InputS(b) ==
    /\ pc = "prompt"
    /\ \E plan \in Plans(b, 1..1) :
          Loop(World(repo), stash_num + 1, plan, Input("s"))
    /\ UNCHANGED can_save_branch

InputA ==
    /\ pc = "prompt"
    /\ Settle(apply_stash(World(repo), stash_num), stash_num, "done", NoPlan,
              Input("a"))
    /\ UNCHANGED can_save_branch

InputQ ==
    /\ pc = "prompt"
    /\ Settle(World(repo), stash_num, "done", NoPlan, Input("q"))
    /\ UNCHANGED can_save_branch

\* faulty variant: the end of input is read as an empty line
InputEof_as_empty_line ==
    /\ pc = "prompt"
    /\ Loop(Emit(World(repo), "help"), stash_num, NoPlan, Input("EOF"))
    /\ UNCHANGED can_save_branch

InputEof ==
    /\ pc = "prompt"
    /\ Settle(Emit(World(repo), "newline"), stash_num, "done", NoPlan, Input("EOF"))
    /\ UNCHANGED can_save_branch

\* faulty variant: an empty line or `?` is taken as a skip
InputHelp_skips(b) ==
    /\ pc = "prompt"
    /\ \E plan \in Plans(b, 1..1), key \in {"?", ""} :
          Loop(Emit(World(repo), "help"), stash_num + 1, plan, Input(key))
    /\ UNCHANGED can_save_branch

InputHelp(b) ==
    /\ pc = "prompt"
    /\ \E plan \in Plans(b, 1..1), key \in {"?", ""} :
          Loop(Emit(World(repo), "help"), stash_num, plan, Input(key))
    /\ UNCHANGED can_save_branch

InputOther(b) ==
    /\ pc = "prompt"
    /\ \E plan \in Plans(b, 1..1), key \in {"x"} :
          Loop(World(repo), stash_num, plan, Input(key))
    /\ UNCHANGED can_save_branch

Step(b) ==
    \/ Start(b)
    \/ InputD(b)
    \/ Confirm(b)
    \/ ConfirmEof
    \/ InputB(b)
    \/ InputS(b)
    \/ InputA
    \/ InputQ
    \/ InputEof
    \/ InputHelp(b)
    \/ InputOther(b)

\* every git invocation runs and exits as git does
Next == Step(0)

Spec == Init /\ [][Next]_vars

\* up to MaxFaults invocations of the session exit non-zero, die or do not launch
NextF == Step(MaxFaults)

SpecF == Init /\ [][NextF]_vars

\* every exit code a process can return
ExitCodes == 0..255

\* an unrecognised input, after which `git stash show` exits with code c
\* for whatever reason
InputOtherExit ==
    /\ pc = "prompt"
    /\ \E c \in ExitCodes :
          LET w == World(repo)
              r == stash_show_result(Issue(w, "stash show", NoPlan,
                                           [w EXCEPT !.code = c]))
          IN  Settle(r.world, stash_num, IF r.exists THEN "prompt" ELSE "done",
                     NoPlan, Input("x"))
    /\ UNCHANGED can_save_branch

NextShow == Next \/ InputOtherExit

\* as Spec, and the inspection may exit with any code
SpecShow == Init /\ [][NextShow]_vars

\* SpecF for a session whose input ends: a session that keeps reading comes
\* to the end of input
SpecLive ==
    /\ Init
    /\ [][NextF]_vars
    /\ WF_vars(InputEof \/ ConfirmEof)

\* ----------------------------------------------------------- properties
Returned == pc \in {"prompt", "confirm", "done"}
Issued(name) == \E i \in 1..Len(log) : log[i] = name
Carried(name) == \E i \in 1..Len(log) : log[i] = name /\ codes[i] = 0
Undisturbed == faults = last.faults
Promoting == last.input = "b" /\ can_save_branch

\* C1: a promotion whose commit step fails leaves the repository as it was
\* before the call: no placeholder branch, no branch moved or added, the
\* same branch checked out, the same index and working tree, the same stash
\* stack.
C1_FailedPromotionRestores ==
    (Promoting /\ last.commit = "failed" /\ Returned) =>
        /\ TEMP_STASH \notin DOMAIN repo.branches
        /\ repo.branches = last.pre.branches
        /\ repo.head = last.pre.head
        /\ repo.idx = last.pre.idx
        /\ repo.wt = last.pre.wt
        /\ repo.stashes = last.pre.stashes

\* C2: a promotion whose commit step succeeds leaves the prior branch checked
\* out, the reviewed stash removed (those behind it one place down), and
\* exactly one more branch, stash/<slug of the subject>, carrying the commit.
C2_PromotionAddsOneBranch ==
    (Promoting /\ last.commit = "ok" /\ Returned) =>
        LET name == new_branch_name(find_subject(last.msg).line)
            p == last.num + 1
        IN  /\ repo.head = last.pre.head
            /\ Len(repo.stashes) = Len(last.pre.stashes) - 1
            /\ \A i \in 1..Len(repo.stashes) :
                  repo.stashes[i] = last.pre.stashes[IF i < p THEN i ELSE i + 1]
            /\ name \notin DOMAIN last.pre.branches
            /\ DOMAIN repo.branches = DOMAIN last.pre.branches \cup {name}
            /\ \A n \in DOMAIN last.pre.branches :
                  repo.branches[n] = last.pre.branches[n]
            /\ repo.branches[name] =
                  last.pre.branches[last.pre.head]
                     \cup StashChanges(last.pre.stashes[p])

\* C3: whenever the session waits for operator input or has ended normally,
\* the placeholder branch does not exist.
C3_NoPlaceholderLeft ==
    Returned => TEMP_STASH \notin DOMAIN repo.branches

\* C4: a promotion whose commit succeeded but whose commit-message file has
\* no eligible line ends with the placeholder branch gone and the prior
\* branch checked out.
C4_NoSubjectRollsBack ==
    (Promoting /\ last.commit = "ok" /\ ~find_subject(last.msg).found) =>
        /\ TEMP_STASH \notin DOMAIN repo.branches
        /\ repo.head = last.pre.head

\* C5: the forward steps of a promotion are issued in the order checkout -b,
\* stash apply, add, commit, and once one of the first three exits non-zero
\* no later forward step (apply, add, commit, rename, drop) is issued.
ForwardSteps == <<"checkout -b", "stash apply", "add", "commit">>
LaterSteps == {"stash apply", "add", "commit", "branch -m", "stash drop"}

C5_ForwardStepsShortCircuit ==
    Promoting =>
        /\ \A i \in 1..Len(log) : i <= 4 => log[i] = ForwardSteps[i]
        /\ \A i \in 1..Len(log) :
              (i <= 3 /\ codes[i] # 0) =>
                  \A j \in (i + 1)..Len(log) : log[j] \notin LaterSteps

\* C6: the flag is set by main's first statement and never again; while it
\* is false a `b` input prints the error and changes nothing in the
\* repository and issues no git command of its own, and `s` still advances
\* the cursor, `q` and `a` still end the session, `d` still reaches the
\* dropper.
C6_DirtyFlagBlocksPromotion ==
    [][/\ pc # "start" => can_save_branch' = can_save_branch
       /\ (pc = "prompt" /\ ~can_save_branch) =>
             /\ last'.input = "b" =>
                   /\ repo' = repo
                   /\ stash_num' = stash_num
                   /\ \A i \in 1..Len(log') : log'[i] = "stash show"
                   /\ out' = <<"ERROR">>
             /\ last'.input = "s" => stash_num' = stash_num + 1
             /\ last'.input \in {"q", "a"} => pc' = "done"
             /\ last'.input = "d" => log'[1] = "stash-applied"]_vars

C6_Witness ==
    /\ pc = "prompt"
    /\ ~can_save_branch
    /\ last.input = "b"
    /\ out = <<"ERROR">>
    /\ Dirty(World(repo))

\* C7: a drop that was carried out for input `d` at cursor p removes exactly
\* the stash at p, leaves the cursor at p and moves every later stash one
\* place down; the next existence check finds the stash that was at p+1, or
\* none, which ends the session.
C7_DropShiftsDown ==
    (last.input = "d" /\ Carried("stash drop")) =>
        LET p == last.num + 1 IN
        /\ stash_num = last.num
        /\ Len(repo.stashes) = Len(last.pre.stashes) - 1
        /\ \A i \in 1..Len(repo.stashes) :
              repo.stashes[i] = last.pre.stashes[IF i < p THEN i ELSE i + 1]
        /\ pc = "prompt" => /\ p <= Len(repo.stashes)
                            /\ repo.stashes[p] = last.pre.stashes[p + 1]
        /\ p = Len(last.pre.stashes) => pc # "prompt"
        /\ Undisturbed =>
              pc = IF p < Len(last.pre.stashes) THEN "prompt" ELSE "done"

C7_Witness ==
    /\ last.input = "d"
    /\ Carried("stash drop")
    /\ last.num = 0
    /\ Len(last.pre.stashes) = 2
    /\ pc = "prompt"

\* C8: an answer other than `y` to the dropper's prompt issues no stash drop,
\* leaves the stash stack as it was, is no error, and the session goes on
\* reviewing the same position.
C8_DeclineKeepsStash ==
    (last.input = "d" /\ last.answer \in Answers \ {"y"}) =>
        /\ ~Issued("stash drop")
        /\ repo = last.pre
        /\ stash_num = last.num
        /\ Undisturbed => (pc = "prompt" /\ err = "none")

C8_Witness ==
    /\ last.input = "d"
    /\ last.answer = ""
    /\ pc = "prompt"
    /\ repo.stashes = last.pre.stashes

\* C9: the dropper issues the stash drop without asking only when the query
\* reported the stash applied; otherwise (not applied, or the query is not
\* supported) it asks, and drops only on the answer `y`.
C9_DropOnlyIfAppliedOrYes ==
    (last.input = "d" /\ Issued("stash drop")) =>
        \/ last.query = "applied"
        \/ last.answer = "y"

\* C10: input `a` runs the stash apply for the stash under review (its
\* changes are in the working tree, the stash stays) and ends the session.
C10_ApplyRuns ==
    last.input = "a" =>
        /\ Issued("stash apply")
        /\ StashChanges(last.pre.stashes[last.num + 1]) \subseteq repo.wt
        /\ repo.stashes = last.pre.stashes
        /\ pc = "done"

\* C11: the cursor starts at 0 and never decreases; it changes only on the
\* input `s`, by exactly one, and `s` changes nothing in the repository; the
\* inputs `d`, `b`, `?`, empty and unrecognised leave it alone, and `?`,
\* empty and unrecognised inputs issue nothing but the loop's inspection.
C11_CursorMovesOnlyOnSkip ==
    [][/\ pc = "start" => (stash_num = 0 /\ stash_num' = 0)
       /\ stash_num' >= stash_num
       /\ stash_num' # stash_num => last'.input = "s"
       /\ (pc = "prompt" /\ last'.input = "s") =>
             /\ stash_num' = stash_num + 1
             /\ repo' = repo
             /\ \A i \in 1..Len(log') : log'[i] = "stash show"
       /\ (pc \in {"prompt", "confirm"} /\ last'.input \in {"d", "b", "?", "", "x"}) =>
             stash_num' = stash_num
       /\ (pc = "prompt" /\ last'.input \in {"?", "", "x"}) =>
             /\ repo' = repo
             /\ \A i \in 1..Len(log') : log'[i] = "stash show"]_vars

C11_Witness ==
    /\ last.input = "s"
    /\ stash_num = 1
    /\ last.num = 0
    /\ pc = "prompt"
    /\ repo = last.pre

FailedPromotionKeptStash ==
    /\ Promoting
    /\ last.commit = "failed"
    /\ Returned
    /\ repo.stashes = last.pre.stashes

\* C12 as stated: after a promotion that failed and left the reviewed stash
\* in place, the cursor is one past the position that was promoted.
C12_CursorAdvancesAfterFailedPromotion ==
    FailedPromotionKeptStash => stash_num = last.num + 1

\* C12: after a promotion that failed and left the reviewed stash in place,
\* the cursor is where it was and the session is at the action prompt for
\* the same stash, so that the operator may retry or skip it.
C12_CursorStaysAfterFailedPromotion ==
    FailedPromotionKeptStash =>
        /\ stash_num = last.num
        /\ Undisturbed =>
              /\ pc = "prompt"
              /\ repo.stashes[stash_num + 1] = last.pre.stashes[last.num + 1]

C12_Witness ==
    /\ FailedPromotionKeptStash
    /\ last.msg = MsgEmpty
    /\ Issued("branch -d")
    /\ pc = "prompt"
    /\ stash_num = 0

Notices(o) == Cardinality({i \in 1..Len(o) : o[i] = "No stashes found."})

\* C13: "No stashes found." is printed at most once in a session, and only
\* before the first prompt; it is printed exactly when the stash stack is
\* empty at session start (the two startup queries running as git runs
\* them), and then no input is read, nothing is inspected and the session
\* ends successfully.  A handler that ends the session because the stack or
\* the cursor ran out prints no such notice.
C13_NoticeOnlyForEmptyStack ==
    [][/\ pc # "start" => (pc' # "start" /\ Notices(out') = 0)
       /\ (pc = "start" /\ faults' = 0) =>
             /\ Notices(out') = (IF repo.stashes = << >> THEN 1 ELSE 0)
             /\ repo.stashes = << >> =>
                   /\ pc' = "done"
                   /\ err' = "none"
                   /\ last'.input = "none"
                   /\ ~(\E i \in 1..Len(log') : log'[i] = "stash show")
                   /\ repo' = repo]_vars

C13_Witness ==
    /\ Notices(out) = 1
    /\ faults = 0
    /\ pc = "done"
    /\ last.input = "none"
    /\ repo.stashes = << >>

\* C14: the existence check is decided by the exit code of the inspection
\* alone: the session goes on to the prompt exactly when the code is 0 or
\* 141, and ends (no stash at the cursor) for every other exit code; 141 is
\* classified as 0 is.
C14_ExistsIffZeroOr141 ==
    (log # << >> /\ log[Len(log)] = "stash show" /\ err = "none") =>
        LET c == codes[Len(codes)] IN
        /\ c \in ExitCodes
        /\ pc \in {"prompt", "done"}
        /\ pc = "prompt" <=> c \in {0, 141}
        /\ pc = "done" <=> c \in ExitCodes \ {0, 141}

C14_Witness ==
    /\ log # << >>
    /\ log[Len(log)] = "stash show"
    /\ codes[Len(codes)] = 141
    /\ last.input = "x"
    /\ pc = "prompt"

\* C15: a git invocation that could not be launched, or that ended without
\* an exit code, is the last one the session issues, and the session has
\* aborted with an error.
C15_NoExitCodeAborts ==
    \A i \in 1..Len(codes) :
        codes[i] = NoCode =>
            /\ i = Len(codes)
            /\ pc = "failed"
            /\ err # "none"

\* C16: the end of input, at the action prompt or at the drop confirmation,
\* ends the session successfully: nothing is issued in response to it, no
\* stash is dropped or applied, and the repository and the cursor are as
\* they were when the prompt was shown.
C16_EofQuits ==
    (last.input = "EOF" \/ last.answer = "EOF") =>
        /\ pc = "done"
        /\ err = "none"
        /\ repo = last.pre
        /\ stash_num = last.num
        /\ log = (IF last.answer = "EOF" THEN <<"stash-applied">> ELSE << >>)

C16_Witness ==
    /\ last.input = "d"
    /\ last.answer = "EOF"
    /\ pc = "done"
    /\ Len(repo.stashes) = MaxStashes

\* the subject and the branch name of the example: "Fix login bug!! "
ExampleSubject ==
    <<"F", "i", "x", " ", "l", "o", "g", "i", "n", " ", "b", "u", "g", "!", "!", " ">>
ExampleName ==
    <<"s", "t", "a", "s", "h", "/",
      "f", "i", "x", "_", "l", "o", "g", "i", "n", "_", "b", "u", "g">>

\* the branch names the commit-message files of the model stand for
ExpectedName(msg) ==
    IF msg = MsgFixIt THEN <<"s", "t", "a", "s", "h", "/", "f", "i", "x", "_", "i", "t">>
    ELSE IF msg = MsgGo THEN <<"s", "t", "a", "s", "h", "/", "g", "o">>
    ELSE << >>

\* C17: a promotion whose rename was carried out leaves a branch named after
\* the commit-message file alone: `stash/` followed by the first line that
\* is non-empty and not a `#` line, its terms joined by underscores, every
\* other non-alphanumeric character removed, in lower case; no branch of any
\* other name is added.  "Fix login bug!! " gives stash/fix_login_bug.
C17_NameFromSubject ==
    /\ new_branch_name(ExampleSubject) = ExampleName
    /\ (Promoting /\ Carried("branch -m")) =>
          /\ last.msg \in {MsgFixIt, MsgGo}
          /\ ExpectedName(last.msg) \in DOMAIN repo.branches
          /\ DOMAIN repo.branches \ DOMAIN last.pre.branches
                \subseteq {ExpectedName(last.msg)}

C17_Witness ==
    /\ Promoting
    /\ Carried("branch -m")
    /\ last.msg = MsgFixIt
    /\ ExpectedName(MsgFixIt) \notin DOMAIN last.pre.branches
    /\ repo.branches[ExpectedName(MsgFixIt)] = StashChanges(1)
    /\ pc = "prompt"

\* C18: the branch checked out at session start keeps its name and its head
\* commit whatever the operator enters: it exists in every state of the
\* session and its commit is the one it started with.
C18_OriginalBranchUntouched ==
    /\ MAIN \in DOMAIN repo.branches
    /\ repo.branches[MAIN] = InitRepo(0, FALSE, "#").branches[MAIN]

\* C19: a promotion drops the stash only after its commit succeeded, never
\* when the commit failed or the promotion was refused; and the changes of a
\* stash that a promotion dropped are contained in the commit of some
\* existing branch.
C19_PromotionKeepsContent ==
    (last.input = "b" /\ Issued("stash drop")) =>
        /\ can_save_branch
        /\ last.commit = "ok"
        /\ Carried("stash drop") =>
              \E name \in DOMAIN repo.branches :
                  StashChanges(last.pre.stashes[last.num + 1])
                      \subseteq repo.branches[name]

Terminated == pc \in {"done", "failed"}
Remaining == Len(repo.stashes) - stash_num

\* C20 as stated: on an input stream that ends, whatever the git invocations
\* do, a session that was started reaches Done.
C20_ReachesDone == (pc # "start") ~> (pc = "done")

\* C20: on an input stream that ends, a session that was started
\* terminates: it reaches Done or main returns an error.  A handler runs the existence check once,
\* after its read; while the session waits for input there is a stash at the
\* cursor, and every `s` and every carried-out drop brings the cursor one
\* nearer to the end of the stack.
C20_Terminates ==
    /\ (pc # "start") ~> Terminated
    /\ [](Cardinality({i \in 1..Len(log) : log[i] = "stash show"}) <= 1)
    /\ [](pc \in {"prompt", "confirm"} => Remaining > 0)
    /\ [][/\ (pc = "prompt" /\ last'.input = "s") => Remaining' = Remaining - 1
          /\ (last'.input = "d"
              /\ \E i \in 1..Len(log') : log'[i] = "stash drop" /\ codes'[i] = 0)
                => Remaining' = Remaining - 1]_vars

C20_Witness ==
    /\ pc = "done"
    /\ last.input = "s"
    /\ stash_num = Len(repo.stashes)
    /\ stash_num > 1

====
